---- MODULE Spec2Model ----
(***************************************************************************)
(* Model of src/src/04-google-gauth-structured-output/strategy-analysis.ts *)
(* : analyzeStructuredOutputStrategy, which classifies a finished          *)
(* conversation, and logStrategyAnalysis, which prints the classification  *)
(* and the schema-key comparison.                                          *)
(*                                                                         *)
(* Text is a sequence of one-character strings, so that String.includes,   *)
(* JSON.parse, Object.keys and String.substring are computed character by  *)
(* character.  A JavaScript value is a record tagged by t.                 *)
(***************************************************************************)
EXTENDS Integers, Sequences, FiniteSets, TLC

(***************************************************************************)
(* JavaScript values.                                                      *)
(***************************************************************************)
Undefined == [t |-> "undefined"]

Null == [t |-> "null"]

Bool(b) == [t |-> "boolean", b |-> b]

Num(n) == [t |-> "number", n |-> n]

Str(s) == [t |-> "string", s |-> s]

Arr(items) == [t |-> "array", items |-> items]

\* An object literal: its own keys in insertion order, and their values.
Obj(keys, vals) == [t |-> "object", keys |-> keys, vals |-> vals]

\* if (v) ...  /  !!v  /  v || w
Truthy(v) ==
  CASE v.t = "undefined" -> FALSE
    [] v.t = "null" -> FALSE
    [] v.t = "boolean" -> v.b
    [] v.t = "number" -> v.n # 0
    [] v.t = "string" -> Len(v.s) > 0
    [] OTHER -> TRUE

(***************************************************************************)
(* The texts of the source and of the modelled conversations.              *)
(***************************************************************************)
MarkerExtract == <<"e", "x", "t", "r", "a", "c", "t">>

MarkerMovieRecommendation == <<"M", "o", "v", "i", "e", "R", "e", "c", "o", "m", "m", "e", "n", "d", "a", "t", "i", "o", "n">>

TagAI == <<"A", "I">>

TypeAi == <<"a", "i">>

TypeHuman == <<"h", "u", "m", "a", "n">>

TypeTool == <<"t", "o", "o", "l">>

CtorAIMessage == <<"A", "I", "M", "e", "s", "s", "a", "g", "e">>

CtorHumanMessage == <<"H", "u", "m", "a", "n", "M", "e", "s", "s", "a", "g", "e">>

CtorToolMessage == <<"T", "o", "o", "l", "M", "e", "s", "s", "a", "g", "e">>

NameUnknown == <<"u", "n", "k", "n", "o", "w", "n">>

NameExtract1 == <<"e", "x", "t", "r", "a", "c", "t", "-", "1">>

NameTavilySearch == <<"t", "a", "v", "i", "l", "y", "_", "s", "e", "a", "r", "c", "h">>

NameMovieBot == <<"M", "o", "v", "i", "e", "R", "e", "c", "o", "m", "m", "e", "n", "d", "a", "t", "i", "o", "n", "B", "o", "t">>

KeyTitle == <<"t", "i", "t", "l", "e">>

KeyYear == <<"y", "e", "a", "r">>

KeyGenre == <<"g", "e", "n", "r", "e">>

KeyTitleUpper == <<"T", "i", "t", "l", "e">>

TextQuestion == <<"R", "e", "c", "o", "m", "m", "e", "n", "d", " ", "a", " ", "m", "o", "v", "i", "e">>

TextProse == <<"H", "e", "r", "e", " ", "i", "s", " ", "m", "y", " ", "a", "n", "s", "w", "e", "r", ".">>

TextMovieJson == <<"{", "\"", "t", "i", "t", "l", "e", "\"", ":", "\"", "x", "\"", ",", "\"", "y", "e", "a", "r", "\"", ":", "1", "}">>

TextNull == <<"n", "u", "l", "l">>

LitNull == <<"n", "u", "l", "l">>

LitTrue == <<"t", "r", "u", "e">>

LitFalse == <<"f", "a", "l", "s", "e">>

(***************************************************************************)
(* String.prototype.includes and String.prototype.substring.               *)
(***************************************************************************)
\* s.includes(sub): sub occurs in s as a contiguous run of characters.
Includes(s, sub) ==
  \E i \in 0..(Len(s) - Len(sub)) : SubSeq(s, i + 1, i + Len(sub)) = sub

\* s.substring(0, n)
Substring0(s, n) == SubSeq(s, 1, IF Len(s) < n THEN Len(s) ELSE n)

(***************************************************************************)
(* JSON.parse, for the JSON grammar without fractions, exponents and       *)
(* string escapes (none of the modelled texts has them).  A parse step     *)
(* yields [ok, v, p]: whether a value was read, the value, and the         *)
(* position after it.                                                      *)
(***************************************************************************)
Whitespace == {" ", "\t", "\n", "\r"}

Digits == <<"0", "1", "2", "3", "4", "5", "6", "7", "8", "9">>

IsDigit(c) == \E d \in 1..10 : Digits[d] = c

DigitValue(c) == (CHOOSE d \in 1..10 : Digits[d] = c) - 1

ParseFail == [ok |-> FALSE, v |-> Undefined, p |-> 0]

ParseOk(v, p) == [ok |-> TRUE, v |-> v, p |-> p]

RECURSIVE SkipWs(_, _)
SkipWs(s, p) ==
  IF p <= Len(s) /\ s[p] \in Whitespace THEN SkipWs(s, p + 1) ELSE p

\* The literals null, true and false.
ParseLiteral(s, p, lit, v) ==
  IF p + Len(lit) - 1 <= Len(s) /\ SubSeq(s, p, p + Len(lit) - 1) = lit
  THEN ParseOk(v, p + Len(lit))
  ELSE ParseFail

RECURSIVE ParseDigits(_, _, _)
ParseDigits(s, p, acc) ==
  IF p <= Len(s) /\ IsDigit(s[p])
  THEN ParseDigits(s, p + 1, 10 * acc + DigitValue(s[p]))
  ELSE [n |-> acc, p |-> p]

\* An integer: an optional minus, then 0 or a digit run without leading 0.
ParseNumber(s, p) ==
  LET neg == p <= Len(s) /\ s[p] = "-"
      q == IF neg THEN p + 1 ELSE p
  IN  IF q > Len(s) \/ ~IsDigit(s[q])
      THEN ParseFail
      ELSE IF s[q] = "0"
           THEN ParseOk(Num(0), q + 1)
           ELSE LET d == ParseDigits(s, q, 0)
                IN  ParseOk(Num(IF neg THEN 0 - d.n ELSE d.n), d.p)

\* The characters of a string up to its closing quote; p is after the
\* opening quote.  A control character or a backslash ends the parse.
RECURSIVE ParseChars(_, _, _)
ParseChars(s, p, acc) ==
  IF p > Len(s) \/ s[p] \in {"\t", "\n", "\r", "\\"}
  THEN ParseFail
  ELSE IF s[p] = "\""
       THEN ParseOk(Str(acc), p + 1)
       ELSE ParseChars(s, p + 1, Append(acc, s[p]))

ParseString(s, p) ==
  IF p <= Len(s) /\ s[p] = "\"" THEN ParseChars(s, p + 1, <<>>) ELSE ParseFail

\* obj[key] = val on an object literal: a repeated key keeps its place and
\* takes the later value.
ObjPut(o, key, val) ==
  IF \E i \in 1..Len(o.keys) : o.keys[i] = key
  THEN LET i == CHOOSE j \in 1..Len(o.keys) : o.keys[j] = key
       IN  Obj(o.keys, [o.vals EXCEPT ![i] = val])
  ELSE Obj(Append(o.keys, key), Append(o.vals, val))

RECURSIVE ParseValue(_, _)
RECURSIVE ParseElements(_, _, _)
RECURSIVE ParseMembers(_, _, _)

\* value (ws "," ws value)* ws "]" ; p is at the first character of a value.
ParseElements(s, p, acc) ==
  LET e == ParseValue(s, p)
      q == SkipWs(s, e.p)
  IN  IF ~e.ok \/ q > Len(s)
      THEN ParseFail
      ELSE IF s[q] = "]"
           THEN ParseOk(Arr(Append(acc, e.v)), q + 1)
           ELSE IF s[q] = ","
                THEN ParseElements(s, SkipWs(s, q + 1), Append(acc, e.v))
                ELSE ParseFail

\* string ws ":" ws value (ws "," ws member)* ws "}" ; p is at the key.
ParseMembers(s, p, acc) ==
  LET k == ParseString(s, p)
      c == SkipWs(s, k.p)
  IN  IF ~k.ok \/ c > Len(s) \/ s[c] # ":"
      THEN ParseFail
      ELSE LET e == ParseValue(s, SkipWs(s, c + 1))
               q == SkipWs(s, e.p)
               o == ObjPut(acc, k.v.s, e.v)
           IN  IF ~e.ok \/ q > Len(s)
               THEN ParseFail
               ELSE IF s[q] = "}"
                    THEN ParseOk(o, q + 1)
                    ELSE IF s[q] = ","
                         THEN ParseMembers(s, SkipWs(s, q + 1), o)
                         ELSE ParseFail

\* One JSON value starting at p (no leading whitespace).
ParseValue(s, p) ==
  IF p > Len(s)
  THEN ParseFail
  ELSE CASE s[p] = "n" -> ParseLiteral(s, p, LitNull, Null)
         [] s[p] = "t" -> ParseLiteral(s, p, LitTrue, Bool(TRUE))
         [] s[p] = "f" -> ParseLiteral(s, p, LitFalse, Bool(FALSE))
         [] s[p] = "\"" -> ParseString(s, p)
         [] s[p] = "-" \/ IsDigit(s[p]) -> ParseNumber(s, p)
         [] s[p] = "[" ->
              LET q == SkipWs(s, p + 1)
              IN  IF q <= Len(s) /\ s[q] = "]"
                  THEN ParseOk(Arr(<<>>), q + 1)
                  ELSE ParseElements(s, q, <<>>)
         [] s[p] = "{" ->
              LET q == SkipWs(s, p + 1)
              IN  IF q <= Len(s) /\ s[q] = "}"
                  THEN ParseOk(Obj(<<>>, <<>>), q + 1)
                  ELSE ParseMembers(s, q, Obj(<<>>, <<>>))
         [] OTHER -> ParseFail

\* JSON.parse(s): [ok |-> FALSE] stands for the SyntaxError it throws.
JSONParse(s) ==
  LET r == ParseValue(s, SkipWs(s, 1))
  IN  IF r.ok /\ SkipWs(s, r.p) = Len(s) + 1
      THEN [ok |-> TRUE, v |-> r.v]
      ELSE [ok |-> FALSE, v |-> Undefined]

(***************************************************************************)
(* Messages.  A message object carries its constructor's name, what its    *)
(* _getType() returns (Undefined: it has no such method), and its content, *)
(* tool_calls and name properties.  An element of the messages array can   *)
(* also be null.                                                           *)
(***************************************************************************)
Message(ctor, getType, content, tool_calls, name) ==
  [t |-> "message", ctor |-> ctor, getType |-> getType, content |-> content,
   tool_calls |-> tool_calls, name |-> name]

\* One entry of tool_calls: { name: ... }.
ToolCall(name) == [t |-> "toolcall", name |-> name]

Nullish(v) == v.t \in {"undefined", "null"}

\* v.length
LengthOf(v) ==
  CASE v.t = "array" -> Num(Len(v.items))
    [] v.t = "string" -> Num(Len(v.s))
    [] OTHER -> Undefined

\* x > 0, where an undefined x compares false.
GreaterThanZero(x) == x.t = "number" /\ x.n > 0

\* messages.slice(-5)
SliceWindow == 5

Slice(seq, n) ==
  IF Len(seq) <= n THEN seq ELSE SubSeq(seq, Len(seq) - n + 1, Len(seq))

\* [...messages].reverse()
Reverse(seq) == [i \in 1..Len(seq) |-> seq[Len(seq) + 1 - i]]

(***************************************************************************)
(* The three callbacks handed to Array.prototype.find.  Each yields        *)
(* "true", "false" or "throw" (the TypeError of reading a property of      *)
(* null, or of calling an includes that is not a function).                *)
(***************************************************************************)
\* (m) => m.tool_calls?.length > 0
ToolCallsTest(m) ==
  IF Nullish(m)
  THEN "throw"
  ELSE IF ~Nullish(m.tool_calls) /\ GreaterThanZero(LengthOf(m.tool_calls))
       THEN "true"
       ELSE "false"

\* name?.includes(marker) on a name that is not null or undefined.
NameIncludes(name, marker) ==
  CASE name.t = "string" -> IF Includes(name.s, marker) THEN "true" ELSE "false"
    [] name.t = "array" ->
         IF \E i \in 1..Len(name.items) : name.items[i] = Str(marker)
         THEN "true" ELSE "false"
    [] OTHER -> "throw"

\* (m) => m.name?.includes("extract") || m.name?.includes("MovieRecommendation")
ToolResponseTest(m) ==
  IF Nullish(m)
  THEN "throw"
  ELSE IF Nullish(m.name)
       THEN "false"
       ELSE LET first == NameIncludes(m.name, MarkerExtract)
            IN  IF first = "false"
                THEN NameIncludes(m.name, MarkerMovieRecommendation)
                ELSE first

\* (m) => m.constructor?.name?.includes("AI") || m._getType?.() === "ai"
AiTest(m) ==
  IF Nullish(m)
  THEN "throw"
  ELSE IF Includes(m.ctor, TagAI) \/ m.getType = Str(TypeAi)
       THEN "true"
       ELSE "false"

\* Array.prototype.find over the callback's outcomes, in order: the first
\* element whose outcome is not "false" ends the scan.
Find(seq, outcomes) ==
  IF \E i \in 1..Len(seq) : outcomes[i] # "false"
  THEN LET i == CHOOSE j \in 1..Len(seq) :
                  /\ outcomes[j] # "false"
                  /\ \A k \in 1..(j - 1) : outcomes[k] = "false"
       IN  IF outcomes[i] = "throw"
           THEN [thrown |-> TRUE, m |-> Undefined]
           ELSE [thrown |-> FALSE, m |-> seq[i]]
  ELSE [thrown |-> FALSE, m |-> Undefined]

\* Variants of lastMessages: a window one message short, and no window.
lastMessagesShort(messages) == Slice(messages, SliceWindow - 1)

lastMessagesAll(messages) == messages

lastMessages(messages) == Slice(messages, SliceWindow)

toolCallMessage(messages) ==
  LET last == lastMessages(messages)
  IN  Find(last, [i \in 1..Len(last) |-> ToolCallsTest(last[i])])

toolResponseMessage(messages) ==
  LET last == lastMessages(messages)
  IN  Find(last, [i \in 1..Len(last) |-> ToolResponseTest(last[i])])

hasToolCalls(messages) ==
  Truthy(toolCallMessage(messages).m) \/ Truthy(toolResponseMessage(messages).m)

\* Variant of lastAiMessage: the scan runs from the start of the array.
firstAiMessage(messages) ==
  Find(messages, [i \in 1..Len(messages) |-> AiTest(messages[i])])

lastAiMessage(messages) ==
  LET rev == Reverse(messages)
  IN  Find(rev, [i \in 1..Len(rev) |-> AiTest(rev[i])])

\* lastAiMessage?.content
lastContent(messages) ==
  LET m == lastAiMessage(messages).m
  IN  IF Nullish(m) THEN Undefined ELSE m.content

\* let parsedJson; if (typeof lastContent === "string") try { JSON.parse }
parsedJson(messages) ==
  LET c == lastContent(messages)
  IN  IF c.t = "string" /\ JSONParse(c.s).ok THEN JSONParse(c.s).v ELSE Undefined

\* a || b
OrElse(a, b) == IF Truthy(a) THEN a ELSE b

\* toolCallMessage?.tool_calls?.[0]?.name
FirstToolCallName(m) ==
  IF Nullish(m) \/ Nullish(m.tool_calls)
  THEN Undefined
  ELSE IF m.tool_calls.t = "array" /\ Len(m.tool_calls.items) > 0
          /\ m.tool_calls.items[1].t = "toolcall"
       THEN m.tool_calls.items[1].name
       ELSE Undefined

\* toolResponseMessage?.name
NameOf(m) == IF Nullish(m) THEN Undefined ELSE m.name

toolName(messages) ==
  OrElse(FirstToolCallName(toolCallMessage(messages).m),
         OrElse(NameOf(toolResponseMessage(messages).m), Str(NameUnknown)))

\* structuredResponse !== undefined
Defined(v) == v.t # "undefined"

\* Variant of ToolCallingWorked: the success rule of the PROVIDER_JSON branch.
ToolCallingWorkedLenient(structuredResponse, parsed) ==
  Defined(structuredResponse) \/ Defined(parsed)

ToolCallingWorked(structuredResponse, parsed) == Defined(structuredResponse)

ProviderJsonWorked(structuredResponse, parsed) ==
  Defined(structuredResponse) \/ Defined(parsed)

\* Variant of UnknownWorked: the success rule of the PROVIDER_NO_JSON branch.
UnknownWorkedNever(structuredResponse, parsed) == FALSE

UnknownWorked(structuredResponse, parsed) == Defined(structuredResponse)

\* A normal return of analyzeStructuredOutputStrategy.
Returned(strategy, worked, details, tool, parsed) ==
  [st |-> "returned", strategy |-> strategy, structuredOutputWorked |-> worked,
   details |-> details, tool |-> tool, parsedJson |-> parsed]

Thrown == [st |-> "thrown"]

NotCalled == [st |-> "none"]

\* The branches of lines 58-89, in order.
Classify(messages, structuredResponse) ==
  LET parsed == parsedJson(messages)
      c == lastContent(messages)
  IN  IF hasToolCalls(messages)
      THEN Returned("TOOL_CALLING", ToolCallingWorked(structuredResponse, parsed),
                    "Tool calling strategy detected", toolName(messages), parsed)
      ELSE IF Truthy(parsed)
           THEN Returned("PROVIDER_JSON",
                         ProviderJsonWorked(structuredResponse, parsed),
                         "Provider strategy - response is valid JSON",
                         Undefined, parsed)
           ELSE IF c.t = "string" /\ Len(c.s) > 0
                THEN Returned("PROVIDER_NO_JSON", FALSE,
                              "Provider strategy attempted but response is NOT JSON (plain text/markdown)",
                              Undefined, Undefined)
                ELSE Returned("UNKNOWN", UnknownWorked(structuredResponse, parsed),
                              "Could not determine strategy", Undefined, Undefined)

\* analyzeStructuredOutputStrategy(messages, structuredResponse): the three
\* scans run first, in source order, and the first TypeError leaves the
\* function.
analyzeStructuredOutputStrategy(messages, structuredResponse) ==
  IF \/ toolCallMessage(messages).thrown
     \/ toolResponseMessage(messages).thrown
     \/ lastAiMessage(messages).thrown
  THEN Thrown
  ELSE Classify(messages, structuredResponse)

(***************************************************************************)
(* logStrategyAnalysis: the lines it hands to console.log, in order.       *)
(***************************************************************************)
RECURSIVE NumToText(_)
\* String(n) of a non-negative integer.
NumToText(n) ==
  IF n < 10 THEN <<Digits[n + 1]>> ELSE NumToText(n \div 10) \o <<Digits[(n % 10) + 1]>>

\* Object.keys(v) of a truthy v: an object's own keys in insertion order,
\* the indices of an array or of a string, nothing for a number or a boolean.
ObjectKeys(v) ==
  CASE v.t = "object" -> v.keys
    [] v.t = "array" -> [i \in 1..Len(v.items) |-> NumToText(i - 1)]
    [] v.t = "string" -> [i \in 1..Len(v.s) |-> NumToText(i - 1)]
    [] OTHER -> <<>>

\* jsonKeys.includes(k)
ArrayIncludes(arr, k) == \E i \in 1..Len(arr) : arr[i] = k

\* Variant of hasExpectedKeys: some in place of every.
hasSomeExpectedKey(schemaKeys, jsonKeys) ==
  \E i \in 1..Len(schemaKeys) : ArrayIncludes(jsonKeys, schemaKeys[i])

\* schemaKeys.every(k => jsonKeys.includes(k))
hasExpectedKeys(schemaKeys, jsonKeys) ==
  \A i \in 1..Len(schemaKeys) : ArrayIncludes(jsonKeys, schemaKeys[i])

RuleWidth == 50

PreviewLength == 200

Rule == [label |-> "rule", width |-> RuleWidth]

\* Lines 106-117: the header, the strategy, the details and the verdict.
HeaderLines(analysis, structuredResponse) ==
  << Rule,
     [label |-> "STRATEGY ANALYSIS"],
     Rule,
     [label |-> "Strategy Detected", strategy |-> analysis.strategy],
     [label |-> "Details", details |-> analysis.details, tool |-> analysis.tool],
     [label |-> "structuredResponse defined", defined |-> Defined(structuredResponse)],
     [label |-> "Structured output",
      verdict |-> IF analysis.structuredOutputWorked THEN "WORKED" ELSE "FAILED"] >>

\* Lines 119-126: printed when analysis.parsedJson is truthy.  The two key
\* lists are printed joined by ", ", in the order given here.
SchemaLines(analysis, schemaKeys) ==
  IF Truthy(analysis.parsedJson)
  THEN LET jsonKeys == ObjectKeys(analysis.parsedJson)
       IN  << [label |-> "Parsed JSON keys", keys |-> jsonKeys],
              [label |-> "Expected schema keys", keys |-> schemaKeys],
              [label |-> "Schema match",
               verdict |-> IF hasExpectedKeys(schemaKeys, jsonKeys) THEN "YES" ELSE "NO"] >>
  ELSE <<>>

\* Lines 128-136: the first 200 characters of the last AI message's text.
PreviewLines(messages) ==
  LET c == lastContent(messages)
  IN  IF c.t = "string" /\ Len(c.s) > 0
      THEN << [label |-> "Last AI message preview (first 200 chars):"],
              [label |-> "preview", text |-> Substring0(c.s, PreviewLength),
               ellipsis |-> Len(c.s) > PreviewLength] >>
      ELSE <<>>

\* What logStrategyAnalysis prints; nothing when the analysis throws.
LogLines(messages, structuredResponse, schemaKeys) ==
  LET analysis == analyzeStructuredOutputStrategy(messages, structuredResponse)
  IN  IF analysis.st = "thrown"
      THEN <<>>
      ELSE HeaderLines(analysis, structuredResponse)
             \o SchemaLines(analysis, schemaKeys)
             \o PreviewLines(messages)
             \o <<Rule>>

(***************************************************************************)
(* The conversations and arguments the operations are run on.              *)
(***************************************************************************)
NoCalls == Arr(<<>>)

UserTurn ==
  Message(CtorHumanMessage, Str(TypeHuman), Str(TextQuestion), Undefined, Undefined)

AiProse == Message(CtorAIMessage, Str(TypeAi), Str(TextProse), NoCalls, Undefined)

AiJson == Message(CtorAIMessage, Str(TypeAi), Str(TextMovieJson), NoCalls, Undefined)

AiNull == Message(CtorAIMessage, Str(TypeAi), Str(TextNull), NoCalls, Undefined)

AiEmpty == Message(CtorAIMessage, Str(TypeAi), Str(<<>>), NoCalls, Undefined)

AiNoContent == Message(CtorAIMessage, Str(TypeAi), Undefined, NoCalls, Undefined)

AiToolCall ==
  Message(CtorAIMessage, Str(TypeAi), Str(<<>>),
          Arr(<<ToolCall(Str(NameTavilySearch))>>), Undefined)

ToolExtract ==
  Message(CtorToolMessage, Str(TypeTool), Str(TextMovieJson), Undefined, Str(NameExtract1))

ToolSearch ==
  Message(CtorToolMessage, Str(TypeTool), Str(TextProse), Undefined, Str(NameTavilySearch))

UserNamedBot ==
  Message(CtorHumanMessage, Str(TypeHuman), Str(TextQuestion), Undefined, Str(NameMovieBot))

UserWithToolCalls ==
  Message(CtorHumanMessage, Str(TypeHuman), Str(TextQuestion),
          Arr(<<ToolCall(Str(NameExtract1))>>), Undefined)

\* Messages other than a plain user turn.
MarkedMessages ==
  {AiProse, AiJson, AiNull, AiEmpty, AiNoContent, AiToolCall,
   ToolExtract, ToolSearch, UserNamedBot, UserWithToolCalls}

\* Array elements and properties of unexpected types.
BadNameMessage ==
  Message(CtorToolMessage, Str(TypeTool), Str(TextProse), Undefined, Num(7))

BadToolCallsMessage ==
  Message(CtorAIMessage, Str(TypeAi), Arr(<<>>), Num(7), Undefined)

MalformedElements == {Null, BadNameMessage, BadToolCallsMessage}

StructuredResponses == {Undefined, Obj(<<KeyTitle>>, <<Str(<<"x">>)>>)}

SchemaKeyLists ==
  { <<KeyYear, KeyTitle>>, <<KeyTitle, KeyYear, KeyGenre>>, <<KeyTitleUpper>> }

MaxLen == 6

MaxMarked == 2

Marked(seq) == Cardinality({i \in 1..Len(seq) : seq[i] # UserTurn})

(***************************************************************************)
(* State: the conversation handed over by the agent, the arguments of the  *)
(* last call, what the call returned or threw, and the console.            *)
(***************************************************************************)
VARIABLES messages, structuredResponse, schemaKeys, analysis, console, pc

vars == <<messages, structuredResponse, schemaKeys, analysis, console, pc>>

Init ==
  /\ messages = <<>>
  /\ structuredResponse = Undefined
  /\ schemaKeys = <<>>
  /\ analysis = NotCalled
  /\ console = <<>>
  /\ pc = "conversation"

\* The agent appends one message to the conversation.
Push(m) ==
  /\ pc = "conversation"
  /\ Len(messages) < MaxLen
  /\ Marked(Append(messages, m)) <= MaxMarked
  /\ messages' = Append(messages, m)
  /\ UNCHANGED <<structuredResponse, schemaKeys, analysis, console, pc>>

\* analyzeStructuredOutputStrategy(messages, sr)
Analyze(sr) ==
  /\ pc = "conversation"
  /\ structuredResponse' = sr
  /\ analysis' = analyzeStructuredOutputStrategy(messages, sr)
  /\ pc' = "analyzed"
  /\ UNCHANGED <<messages, schemaKeys, console>>

\* logStrategyAnalysis(messages, sr, keys)
Log(sr, keys) ==
  /\ pc = "conversation"
  /\ structuredResponse' = sr
  /\ schemaKeys' = keys
  /\ analysis' = analyzeStructuredOutputStrategy(messages, sr)
  /\ console' = LogLines(messages, sr, keys)
  /\ pc' = "logged"
  /\ UNCHANGED messages

Next ==
  \/ \E m \in MarkedMessages \cup {UserTurn} : Push(m)
  \/ \E sr \in StructuredResponses : Analyze(sr)
  \/ \E sr \in StructuredResponses : \E keys \in SchemaKeyLists : Log(sr, keys)

Spec == Init /\ [][Next]_vars

\* The same operations on arrays that may hold malformed elements.
NextAny ==
  \/ \E m \in MalformedElements \cup {UserTurn, AiProse, AiToolCall, ToolExtract} : Push(m)
  \/ \E sr \in StructuredResponses : Analyze(sr)
  \/ \E sr \in StructuredResponses : \E keys \in SchemaKeyLists : Log(sr, keys)

SpecAny == Init /\ [][NextAny]_vars

(***************************************************************************)
(* Vocabulary of the properties, in the specification's terms: roles,      *)
(* tool invocations, the most recent assistant message, the key set of     *)
(* the recovered JSON.                                                     *)
(***************************************************************************)
Called == pc # "conversation"

ReturnedNormally == Called /\ analysis.st = "returned"

IsAssistant(m) == m.t = "message" /\ m.getType = Str(TypeAi)

IsToolResult(m) == m.t = "message" /\ m.getType = Str(TypeTool)

CarriesToolInvocation(m) ==
  m.t = "message" /\ m.tool_calls.t = "array" /\ Len(m.tool_calls.items) >= 1

NameHasMarker(m) ==
  /\ m.t = "message"
  /\ m.name.t = "string"
  /\ \/ Includes(m.name.s, MarkerExtract)
     \/ Includes(m.name.s, MarkerMovieRecommendation)

\* The positions of the last five messages (all of them when fewer).
Window == {i \in 1..Len(messages) : i > Len(messages) - SliceWindow}

AssistantPositions == {i \in 1..Len(messages) : IsAssistant(messages[i])}

HasAssistant == AssistantPositions # {}

MostRecentAssistant ==
  messages[CHOOSE i \in AssistantPositions : \A j \in AssistantPositions : j <= i]

\* No message of the trace, of any role, carries a tool invocation.
NoToolInvocation == \A i \in 1..Len(messages) : ~CarriesToolInvocation(messages[i])

NoMarkerNameInWindow == \A i \in Window : ~NameHasMarker(messages[i])

RecentContentIsText == HasAssistant /\ MostRecentAssistant.content.t = "string"

RecentContentIsJson ==
  RecentContentIsText /\ JSONParse(MostRecentAssistant.content.s).ok

RecentContentIsProse ==
  /\ RecentContentIsText
  /\ Len(MostRecentAssistant.content.s) > 0
  /\ ~JSONParse(MostRecentAssistant.content.s).ok

NoAssistantContent ==
  \/ ~HasAssistant
  \/ MostRecentAssistant.content = Undefined
  \/ MostRecentAssistant.content = Str(<<>>)

\* The key set of a recovered JSON value: an object's keys; no other value
\* of the modelled conversations has keys.
KeySet(v) == IF v.t = "object" THEN {v.keys[i] : i \in 1..Len(v.keys)} ELSE {}

ExpectedKeys == {schemaKeys[i] : i \in 1..Len(schemaKeys)}

MissingKeys == ExpectedKeys \ KeySet(analysis.parsedJson)

Logged == pc = "logged" /\ analysis.st = "returned"

CarriesRecoveredJson == Logged /\ Defined(analysis.parsedJson)

HasLine(line) == \E i \in 1..Len(console) : console[i] = line

KeyLines == {i \in 1..Len(console) : "keys" \in DOMAIN console[i]}

(***************************************************************************)
(* C1.  As claimed: a trace with an assistant message carrying a tool      *)
(* invocation at any position is classified TOOL_CALLING.                  *)
(***************************************************************************)
C1_AnyPosition ==
  (Called /\ \E i \in 1..Len(messages) :
               IsAssistant(messages[i]) /\ CarriesToolInvocation(messages[i]))
    => (analysis.st = "returned" /\ analysis.strategy = "TOOL_CALLING")

\* C1, amended: a trace with an assistant message carrying a tool
\* invocation among its last five messages is classified TOOL_CALLING,
\* whatever the contents and whatever structuredResponse is.
C1_LastFive ==
  (Called /\ \E i \in Window :
               IsAssistant(messages[i]) /\ CarriesToolInvocation(messages[i]))
    => (analysis.st = "returned" /\ analysis.strategy = "TOOL_CALLING")

\* A trace longer than the window whose tool invocation is the first
\* message of the window and whose most recent assistant content is JSON.
C1_Witness ==
  /\ ReturnedNormally
  /\ Len(messages) > SliceWindow
  /\ messages[Len(messages) - SliceWindow + 1] = AiToolCall
  /\ RecentContentIsJson
  /\ analysis.strategy = "TOOL_CALLING"

(***************************************************************************)
(* C2.  With no tool invocation in the trace and a most recent assistant   *)
(* content that is valid JSON text (of any JSON value), the result is      *)
(* PROVIDER_JSON, worked, with parsedJson the parsed value.  Stated for    *)
(* the traces on which the tool-calling rule finds nothing at all: no      *)
(* marker name in the window either.                                       *)
(***************************************************************************)
C2_ValidJsonIsProviderJson ==
  (Called /\ NoToolInvocation /\ NoMarkerNameInWindow /\ RecentContentIsJson)
    => /\ analysis.st = "returned"
       /\ analysis.strategy = "PROVIDER_JSON"
       /\ analysis.structuredOutputWorked
       /\ analysis.parsedJson = JSONParse(MostRecentAssistant.content.s).v

(***************************************************************************)
(* C3.  As claimed: with no tool invocation in the trace and a most recent *)
(* assistant content that is non-empty and not JSON, the result is         *)
(* PROVIDER_NO_JSON and not worked.                                        *)
(***************************************************************************)
C3_ProseIsProviderNoJson ==
  (Called /\ NoToolInvocation /\ RecentContentIsProse)
    => /\ analysis.st = "returned"
       /\ analysis.strategy = "PROVIDER_NO_JSON"
       /\ ~analysis.structuredOutputWorked

\* C3, amended: the same when, in addition, none of the last five messages
\* has a name containing an extraction marker.
C3_ProseNoMarker ==
  (Called /\ NoToolInvocation /\ NoMarkerNameInWindow /\ RecentContentIsProse)
    => /\ analysis.st = "returned"
       /\ analysis.strategy = "PROVIDER_NO_JSON"
       /\ ~analysis.structuredOutputWorked

\* Prose after an earlier assistant message that held valid JSON, with
\* structuredResponse present.
C3_Witness ==
  /\ ReturnedNormally
  /\ NoToolInvocation /\ NoMarkerNameInWindow /\ RecentContentIsProse
  /\ \E i \in AssistantPositions : messages[i] = AiJson
  /\ Defined(structuredResponse)
  /\ analysis.strategy = "PROVIDER_NO_JSON"

(***************************************************************************)
(* C4.  As claimed: with no tool invocation and no assistant content       *)
(* (the empty trace included) the result is UNKNOWN, worked exactly when   *)
(* structuredResponse is present.                                          *)
(***************************************************************************)
C4_NoContentIsUnknown ==
  (Called /\ NoToolInvocation /\ NoAssistantContent)
    => /\ analysis.st = "returned"
       /\ analysis.strategy = "UNKNOWN"
       /\ analysis.structuredOutputWorked = Defined(structuredResponse)

\* C4, amended: the same when, in addition, none of the last five messages
\* has a name containing an extraction marker.
C4_NoContentNoMarker ==
  (Called /\ NoToolInvocation /\ NoMarkerNameInWindow /\ NoAssistantContent)
    => /\ analysis.st = "returned"
       /\ analysis.strategy = "UNKNOWN"
       /\ analysis.structuredOutputWorked = Defined(structuredResponse)

\* An assistant message with empty text after one with prose, with
\* structuredResponse present.
C4_Witness ==
  /\ ReturnedNormally
  /\ NoToolInvocation /\ NoMarkerNameInWindow
  /\ HasAssistant /\ MostRecentAssistant = AiEmpty
  /\ \E i \in AssistantPositions : messages[i] = AiProse
  /\ Defined(structuredResponse)
  /\ analysis.strategy = "UNKNOWN"
  /\ analysis.structuredOutputWorked

(***************************************************************************)
(* C5.  Every call returns a classification with one of the four           *)
(* strategies; none throws.                                                *)
(***************************************************************************)
C5_NeverThrows ==
  Called => /\ analysis.st = "returned"
            /\ analysis.strategy \in
                 {"TOOL_CALLING", "PROVIDER_JSON", "PROVIDER_NO_JSON", "UNKNOWN"}

(***************************************************************************)
(* C6.  A TOOL_CALLING result is worked exactly when structuredResponse is *)
(* present, whatever the most recent assistant content is.                 *)
(***************************************************************************)
C6_ToolCallingWorked ==
  (ReturnedNormally /\ analysis.strategy = "TOOL_CALLING")
    => analysis.structuredOutputWorked = Defined(structuredResponse)

\* TOOL_CALLING with valid JSON content and no structuredResponse.
C6_Witness ==
  /\ ReturnedNormally
  /\ analysis.strategy = "TOOL_CALLING"
  /\ RecentContentIsJson
  /\ ~Defined(structuredResponse)
  /\ ~analysis.structuredOutputWorked

(***************************************************************************)
(* C7.  For a classification that carries recovered JSON, the report       *)
(* states that the schema matches exactly when every expected key is in    *)
(* the recovered JSON's key set, and that it does not match otherwise.     *)
(***************************************************************************)
C7_SchemaMatchStated ==
  CarriesRecoveredJson
    => HasLine([label |-> "Schema match",
                verdict |-> IF ExpectedKeys \subseteq KeySet(analysis.parsedJson)
                            THEN "YES" ELSE "NO"])

(***************************************************************************)
(* C8.  As claimed: when an expected key is absent from the recovered      *)
(* JSON's key set, the report lists the missing keys: some line of it      *)
(* lists exactly the expected keys that the recovered JSON lacks.  Stated  *)
(* for a recovered JSON object, as in the specification's example.         *)
(***************************************************************************)
C8_MissingKeysListed ==
  (CarriesRecoveredJson /\ analysis.parsedJson.t = "object" /\ MissingKeys # {})
    => \E i \in KeyLines :
         {console[i].keys[j] : j \in 1..Len(console[i].keys)} = MissingKeys

\* C8, amended: when the recovered JSON is an object that lacks an expected
\* key, the report states "Schema match: NO" and prints the object's keys
\* and the complete expected-key list, and no other list of keys: the
\* missing keys are the expected keys printed that are not among the parsed
\* keys printed.
C8_MismatchReported ==
  (CarriesRecoveredJson /\ analysis.parsedJson.t = "object" /\ MissingKeys # {})
    => /\ HasLine([label |-> "Schema match", verdict |-> "NO"])
       /\ HasLine([label |-> "Parsed JSON keys", keys |-> analysis.parsedJson.keys])
       /\ HasLine([label |-> "Expected schema keys", keys |-> schemaKeys])
       /\ Cardinality(KeyLines) = 2

\* The specification's example: keys title and year recovered, title, year
\* and genre expected.
C8_Witness ==
  /\ CarriesRecoveredJson
  /\ KeySet(analysis.parsedJson) = {KeyTitle, KeyYear}
  /\ schemaKeys = <<KeyTitle, KeyYear, KeyGenre>>
  /\ MissingKeys = {KeyGenre}
  /\ HasLine([label |-> "Schema match", verdict |-> "NO"])

(***************************************************************************)
(* C10.  As claimed: TOOL_CALLING is returned only if one of the last five *)
(* messages is an assistant message carrying a tool invocation or a        *)
(* tool-result message whose name contains a marker.                       *)
(***************************************************************************)
C10_OnlyByRole ==
  (ReturnedNormally /\ analysis.strategy = "TOOL_CALLING")
    => \E i \in Window :
         \/ IsAssistant(messages[i]) /\ CarriesToolInvocation(messages[i])
         \/ IsToolResult(messages[i]) /\ NameHasMarker(messages[i])

\* C10, amended: TOOL_CALLING is returned only if one of the last five
\* messages, of whatever role, carries a tool invocation or has a name
\* containing a marker.
C10_OnlyInWindow ==
  (ReturnedNormally /\ analysis.strategy = "TOOL_CALLING")
    => \E i \in Window :
         CarriesToolInvocation(messages[i]) \/ NameHasMarker(messages[i])

\* A trace longer than the window, with a tool invocation before the
\* window that is not counted and a marker name inside it that is.
C10_Witness ==
  /\ ReturnedNormally
  /\ Len(messages) > SliceWindow
  /\ messages[1] = AiToolCall
  /\ \E i \in Window : messages[i] = ToolExtract
  /\ analysis.strategy = "TOOL_CALLING"

====
